---- MODULE Spec2Model ----
(***************************************************************************)
(* The THEOPHYSICS transcription pipeline worker (src/worker/index.js)     *)
(* as a state machine over its D1 tables and its R2 bucket.                *)
(*                                                                         *)
(* A request is handled by a slot p of Procs.  A handler that issues one   *)
(* store statement is one action; a handler that issues several store      *)
(* writes separated by awaits (Transcribe, Analyze) is one action per      *)
(* write, so the rows it leaves behind when a later statement throws are   *)
(* states of the model.  Every store write (D1 run(), R2 put()) and every  *)
(* call to an external service may throw; a SELECT is answered.            *)
(*                                                                         *)
(* Texts are sequences of one-character strings.  A REAL column holds      *)
(* Null or Num(n); n counts sixths (Unit), so that the mean of one, two    *)
(* or three integer scores is exact.                                       *)
(***************************************************************************)
EXTENDS Integers, Sequences, FiniteSets, TLC

VARIABLES
    videos,       \* table videos: row i has id i
    transcripts,  \* table transcripts, in insertion order
    analysis,     \* table ai_analysis, in insertion order
    r2,           \* keys of the objects in the TRANSCRIPTION_VIDEOS bucket
    renders,      \* number of rows of browser_renders
    conversions,  \* number of rows of tts_conversions
    procs,        \* per slot: the request being handled and where it stands
    resp,         \* the response returned last: its status, its headers,
                  \* the kind of its body, kept with the videoId of its
                  \* request or with whether the request lacked its
                  \* required field
    served,       \* number of requests received
    arg,          \* the argument of the helper function called on its own
    out           \* and what the helper returned

vars ==
    <<videos, transcripts, analysis, r2, renders, conversions, procs, resp, served,
      arg, out>>

(***************************************************************************)
(* Bounds of the model                                                     *)
(***************************************************************************)
MaxVideos == 2
MaxTranscripts == 2
MaxAnalysis == 3
MaxRenders == 1
\* requests a behaviour of Spec receives
MaxRequests == 3
\* requests a behaviour of SpecSearch receives
MaxSearchRequests == 4

Procs == {1}

(***************************************************************************)
(* Values                                                                  *)
(***************************************************************************)
\* SQL NULL, JS null and undefined
Null == [k |-> "null"]
\* a number, in sixths
Num(n) == [k |-> "num", n |-> n]
\* JS NaN
NaN == [k |-> "nan"]
IsNum(x) == x.k = "num"
Unit == 2 * 3

\* the four values the schema documents for videos.transcription_status
Statuses == {"pending", "processing", "completed", "failed"}

\* file_path values: an R2 key, a Stream locator, the article marker
FileKey(n) == <<"file", ToString(n)>>
StreamPath(uid) == <<"stream", ":", uid>>
Extracted == <<"extracted">>
\* a NULL file_path
NoPath == <<>>
IsFileKey(k) == Len(k) = 2 /\ k[1] = "file"

\* String.prototype.startsWith('stream:')
StartsWithStream(path) == Len(path) >= 2 /\ path[1] = "stream" /\ path[2] = ":"

\* inputs
\* an absent or falsy request field: '' for a string, 0 for an id
Missing == ""
NoText == <<>>
NoId == 0
Titles == {<<"q", "t">>}
StreamUids == {"u1"}
Texts == {<<"h", "i", ".", " ", "y", "o", ".">>}
\* what Whisper returns: its text opens with a blank
WhisperTexts == {<<" ", "h", "i", " ", "y", "o">>}
VideoIds == 1..MaxVideos

RECURSIVE CountSpaces(_)
CountSpaces(t) ==
    IF t = <<>> THEN 0
    ELSE (IF Head(t) = " " THEN 1 ELSE 0) + CountSpaces(Tail(t))

\* text.split(' ').length
WordCount(t) == CountSpaces(t) + 1

(***************************************************************************)
(* Rows                                                                    *)
(***************************************************************************)
\* INSERT INTO videos: the score columns and tags take the schema's default
VideoRow(title, path, status) ==
    [title |-> title, file_path |-> path, status |-> status,
     ai |-> Null, quality |-> Null, relevance |-> Null, factual |-> Null,
     tags |-> Null]

TranscriptRow(vid, text) ==
    [video_id |-> vid, text |-> text, word_count |-> WordCount(text)]

\* the row takes the place of the video's earlier rows (INSERT OR REPLACE)
ReplaceTranscript(vid, text) ==
    SelectSeq(transcripts, LAMBDA row : row.video_id # vid)
        \o <<TranscriptRow(vid, text)>>

\* INSERT INTO transcripts (video_id, transcript_text, ...)
InsertTranscript(vid, text) == Append(transcripts, TranscriptRow(vid, text))

HasTranscript(vid) == \E i \in 1..Len(transcripts) : transcripts[i].video_id = vid

\* a failure puts the video back in the queue
SetStatusRequeue(vid, s) ==
    [videos EXCEPT ![vid].status = IF s = "failed" THEN "pending" ELSE s]

SetStatus(vid, s) == [videos EXCEPT ![vid].status = s]

\* no helper is being called on its own, or it has not returned yet
NotCalled == [k |-> "none"]
\* the helper returned value
Result(value) == [k |-> "result", value |-> value]
HasResult == out.k = "result"

Idle == [op |-> "idle"]
IsIdle(p) == procs[p].op = "idle"

Init ==
    /\ videos = <<>>
    /\ transcripts = <<>>
    /\ analysis = <<>>
    /\ r2 = {}
    /\ renders = 0
    /\ conversions = 0
    /\ procs = [p \in Procs |-> Idle]
    /\ resp = [op |-> "none", code |-> 0]
    /\ served = 0
    /\ arg = NotCalled
    /\ out = NotCalled

\* the headers fetch builds for all responses
corsHeaders ==
    {"Access-Control-Allow-Origin", "Access-Control-Allow-Methods",
     "Access-Control-Allow-Headers"}

\* a response built without the headers option
ReplyBare(p, r) ==
    /\ procs' = [procs EXCEPT ![p] = Idle]
    /\ resp' = r @@ [headers |-> {}, body |-> "json"]

\* return Response.json(..., { status: r.code, headers: corsHeaders })
Reply(p, r) ==
    /\ procs' = [procs EXCEPT ![p] = Idle]
    /\ resp' = r @@ [headers |-> corsHeaders, body |-> "json"]

\* the exception leaves fetch: the platform answers in the worker's place
RouterRethrow(p, r) ==
    /\ procs' = [procs EXCEPT ![p] = Idle]
    /\ resp' = r @@ [code |-> 0, headers |-> {}, body |-> "none"]

\* the catch block of fetch: an exception no handler caught is answered
\* with { error, stack } and status 500
RouterCatch(p, r) == Reply(p, r @@ [code |-> 500])

(***************************************************************************)
(* The router's own answers                                                *)
(***************************************************************************)
\* an OPTIONS request: new Response(null, { headers: corsHeaders })
Preflight(p) ==
    /\ IsIdle(p)
    /\ UNCHANGED <<videos, transcripts, analysis, r2, renders, conversions, procs>>
    /\ resp' = [op |-> "options", code |-> 200, headers |-> corsHeaders,
                body |-> "none"]

\* no route matches: the default API info
ApiInfo(p) ==
    /\ IsIdle(p)
    /\ UNCHANGED <<videos, transcripts, analysis, r2, renders, conversions>>
    /\ Reply(p, [op |-> "info", code |-> 200])

\* request.json() or request.formData() throws in a handler, before the
\* handler's own try block
BodyRejected(p) ==
    /\ IsIdle(p)
    /\ UNCHANGED <<videos, transcripts, analysis, r2, renders, conversions>>
    /\ RouterCatch(p, [op |-> "body"])

(***************************************************************************)
(* Ingest: POST /upload                                                    *)
(***************************************************************************)
\* the two bound values exchanged: the locator lands in the status column
UrlStatusSwapped(contentType) == IF contentType = "article" THEN "extracted" ELSE "pending"
\* every URL ingest created pending
UrlStatusPending(contentType) == "pending"

\* the status handleUrlContent binds
UrlStatus(contentType) == IF contentType = "article" THEN "completed" ELSE "pending"
\* the file_path handleUrlContent binds
UrlPath(contentType) == IF contentType = "article" THEN Extracted ELSE NoPath

\* JSON body without videoUID
handleUrlContent(p) ==
    /\ IsIdle(p)
    /\ UNCHANGED <<analysis, r2, renders, conversions>>
    /\ \/ \* no url
          /\ Reply(p, [op |-> "upload_url", code |-> 400, lacks |-> TRUE])
          /\ UNCHANGED <<videos, transcripts>>
       \/ \* INSERT INTO videos throws
          /\ Reply(p, [op |-> "upload_url", code |-> 500, lacks |-> FALSE])
          /\ UNCHANGED <<videos, transcripts>>
       \/ /\ Len(videos) < MaxVideos
          /\ \E title \in Titles, contentType \in {Missing, "article", "video"},
                extractedContent \in {NoText} \cup Texts :
               LET videoId == Len(videos) + 1 IN
               /\ videos' = Append(videos,
                     VideoRow(title, UrlPath(contentType), UrlStatus(contentType)))
               /\ IF extractedContent # NoText /\ contentType = "article"
                  THEN /\ Len(transcripts) < MaxTranscripts
                       /\ \/ /\ transcripts' = InsertTranscript(videoId, extractedContent)
                             /\ Reply(p, [op |-> "upload_url", code |-> 200, lacks |-> FALSE])
                          \/ \* INSERT INTO transcripts throws
                             /\ transcripts' = transcripts
                             /\ Reply(p, [op |-> "upload_url", code |-> 500, lacks |-> FALSE])
                  ELSE /\ transcripts' = transcripts
                       /\ Reply(p, [op |-> "upload_url", code |-> 200, lacks |-> FALSE])

\* JSON body with videoUID
handleStreamUpload(p) ==
    /\ IsIdle(p)
    /\ UNCHANGED <<transcripts, analysis, r2, renders, conversions>>
    /\ \/ /\ Len(videos) < MaxVideos
          /\ \E videoUID \in StreamUids, title \in Titles :
               videos' = Append(videos, VideoRow(title, StreamPath(videoUID), "pending"))
          /\ Reply(p, [op |-> "upload_stream", code |-> 200])
       \/ \* INSERT INTO videos throws
          /\ videos' = videos
          /\ Reply(p, [op |-> "upload_stream", code |-> 500])

FileObjects == {k \in r2 : IsFileKey(k)}

\* the row inserted before the object is put
handleFileUploadRowFirst(p) ==
    /\ IsIdle(p)
    /\ UNCHANGED <<transcripts, analysis, renders, conversions>>
    /\ \/ /\ Reply(p, [op |-> "upload_file", code |-> 400, lacks |-> TRUE])
          /\ UNCHANGED <<videos, r2>>
       \/ /\ Reply(p, [op |-> "upload_file", code |-> 500, lacks |-> FALSE])
          /\ UNCHANGED <<videos, r2>>
       \/ /\ Len(videos) < MaxVideos
          /\ Cardinality(FileObjects) < MaxVideos
          /\ LET filename == FileKey(Cardinality(FileObjects) + 1) IN
             /\ \E title \in Titles :
                  videos' = Append(videos, VideoRow(title, filename, "pending"))
             /\ \/ /\ r2' = r2 \cup {filename}
                   /\ Reply(p, [op |-> "upload_file", code |-> 200, lacks |-> FALSE])
                \/ /\ r2' = r2
                   /\ Reply(p, [op |-> "upload_file", code |-> 500, lacks |-> FALSE])

\* multipart body
handleFileUpload(p) ==
    /\ IsIdle(p)
    /\ UNCHANGED <<transcripts, analysis, renders, conversions>>
    /\ \/ \* no file: answered by handleVideoUpload
          /\ Reply(p, [op |-> "upload_file", code |-> 400, lacks |-> TRUE])
          /\ UNCHANGED <<videos, r2>>
       \/ \* put throws
          /\ Reply(p, [op |-> "upload_file", code |-> 500, lacks |-> FALSE])
          /\ UNCHANGED <<videos, r2>>
       \/ /\ Len(videos) < MaxVideos
          /\ Cardinality(FileObjects) < MaxVideos
          /\ LET filename == FileKey(Cardinality(FileObjects) + 1) IN
             /\ r2' = r2 \cup {filename}
             /\ \/ /\ \E title \in Titles :
                        videos' = Append(videos, VideoRow(title, filename, "pending"))
                   /\ Reply(p, [op |-> "upload_file", code |-> 200, lacks |-> FALSE])
                \/ \* INSERT INTO videos throws
                   /\ videos' = videos
                   /\ Reply(p, [op |-> "upload_file", code |-> 500, lacks |-> FALSE])

\* POST /initiate-upload
handleInitiateUpload(p) ==
    /\ IsIdle(p)
    /\ UNCHANGED <<videos, transcripts, analysis, r2, renders, conversions>>
    /\ \/ \* no name
          Reply(p, [op |-> "initiate_upload", code |-> 400, lacks |-> TRUE])
       \/ \* no API token, or the status Stream answered, or success
          \E code \in {200, 400, 500} :
            Reply(p, [op |-> "initiate_upload", code |-> code, lacks |-> FALSE])

(***************************************************************************)
(* Transcribe: POST /transcribe                                            *)
(***************************************************************************)
InTranscribe(p, pc) == procs[p].op = "transcribe" /\ procs[p].pc = pc

Goto(p, pc) == procs' = [procs EXCEPT ![p].pc = pc]

\* which adapter resolves the bytes
BytesSource(path) ==
    IF path = NoPath THEN "type_error"
    ELSE IF StartsWithStream(path) THEN "stream"
    ELSE "r2"

\* a video that is being transcribed is not taken a second time
TranscribeBeginGuarded(p) ==
    /\ IsIdle(p)
    /\ UNCHANGED <<transcripts, analysis, r2, renders, conversions>>
    /\ \E videoId \in VideoIds :
        /\ videoId <= Len(videos)
        /\ IF videos[videoId].status = "processing"
           THEN Reply(p, [op |-> "transcribe", code |-> 409, videoId |-> videoId])
                /\ videos' = videos
           ELSE /\ videos' = SetStatus(videoId, "processing")
                /\ resp' = resp
                /\ procs' = [procs EXCEPT ![p] =
                      [op |-> "transcribe", pc |-> "work", vid |-> videoId,
                       src |-> "none", text |-> NoText]]

\* the request is read, the video looked up and
\* UPDATE videos SET transcription_status = 'processing' run
TranscribeBegin(p) ==
    /\ IsIdle(p)
    /\ UNCHANGED <<transcripts, analysis, r2, renders, conversions>>
    /\ \E videoId \in {NoId} \cup VideoIds :
        IF videoId = NoId
        THEN Reply(p, [op |-> "transcribe", code |-> 400, videoId |-> videoId]) /\ videos' = videos
        ELSE IF videoId > Len(videos)
        THEN Reply(p, [op |-> "transcribe", code |-> 404, videoId |-> videoId]) /\ videos' = videos
        ELSE /\ Len(transcripts) < MaxTranscripts
             /\ resp' = resp
             /\ \/ /\ videos' = SetStatus(videoId, "processing")
                   /\ procs' = [procs EXCEPT ![p] =
                         [op |-> "transcribe", pc |-> "work", vid |-> videoId,
                          src |-> "none", text |-> NoText]]
                \/ \* the UPDATE throws
                   /\ videos' = videos
                   /\ procs' = [procs EXCEPT ![p] =
                         [op |-> "transcribe", pc |-> "catch", vid |-> videoId,
                          src |-> "none", text |-> NoText]]

\* the bytes are resolved, Whisper is run, the transcript is inserted; src
\* keeps which adapter the handler turned to for the bytes
TranscribeWork(p) ==
    /\ InTranscribe(p, "work")
    /\ UNCHANGED <<videos, analysis, r2, renders, conversions, resp>>
    /\ LET vid == procs[p].vid
           filePath == videos[vid].file_path
           src == BytesSource(filePath)
       IN
       \/ \* startsWith on null, Stream or R2 or Whisper or the INSERT throws
          /\ procs' = [procs EXCEPT ![p].pc = "catch", ![p].src = src]
          /\ transcripts' = transcripts
       \/ /\ src = "stream" \/ (src = "r2" /\ filePath \in r2)
          /\ \E text \in WhisperTexts :
               /\ transcripts' = InsertTranscript(vid, text)
               /\ procs' = [procs EXCEPT ![p].pc = "complete", ![p].src = src,
                                         ![p].text = text]

\* UPDATE videos SET transcription_status = 'completed', and the response
TranscribeComplete(p) ==
    /\ InTranscribe(p, "complete")
    /\ UNCHANGED <<transcripts, analysis, r2, renders, conversions>>
    /\ \/ /\ videos' = SetStatus(procs[p].vid, "completed")
          /\ Reply(p, [op |-> "transcribe", code |-> 200, videoId |-> procs[p].vid,
                       wordCount |-> WordCount(procs[p].text)])
       \/ \* the UPDATE throws
          /\ videos' = videos
          /\ Goto(p, "catch")
          /\ resp' = resp

\* the catch block: UPDATE videos SET transcription_status = 'failed'; when
\* that write throws too, the router's catch answers
TranscribeCatch(p) ==
    /\ InTranscribe(p, "catch")
    /\ UNCHANGED <<transcripts, analysis, r2, renders, conversions>>
    /\ \/ /\ videos' = SetStatus(procs[p].vid, "failed")
          /\ Reply(p, [op |-> "transcribe", code |-> 500, videoId |-> procs[p].vid])
       \/ \* the UPDATE throws
          /\ videos' = videos
          /\ RouterCatch(p, [op |-> "transcribe", videoId |-> procs[p].vid])

(***************************************************************************)
(* Score documents: parseAIResponse                                        *)
(***************************************************************************)
\* A response text is a sequence of tokens: braces, commas, a JSON member
\* "key": number, a JSON key followed by an object, prose, and the prose
\* token 'score: n'.
Tok(t, key, val) == [t |-> t, key |-> key, val |-> val]
LB == Tok("{", "", 0)
RB == Tok("}", "", 0)
Comma == Tok(",", "", 0)
Member(key, val) == Tok("member", key, val)
Key(key) == Tok("key", key, 0)
Word == Tok("word", "", 0)
ScoreTok(n) == Tok("score:", "", n)

RECURSIVE FirstIndex(_, _, _)
FirstIndex(text, t, i) ==
    IF i > Len(text) THEN 0
    ELSE IF text[i].t = t THEN i
    ELSE FirstIndex(text, t, i + 1)

RECURSIVE LastIndex(_, _, _)
LastIndex(text, t, i) ==
    IF i < 1 THEN 0
    ELSE IF text[i].t = t THEN i
    ELSE LastIndex(text, t, i - 1)

\* response.match(/\{[\s\S]*\}/): from the first '{' to the last '}'
JsonMatch(response) ==
    LET i == FirstIndex(response, "{", 1)
        j == LastIndex(response, "}", Len(response))
    IN IF i > 0 /\ j > i THEN SubSeq(response, i, j) ELSE <<>>

\* JSON.parse of an object text: acc.ok is whether it parses, acc.score the
\* top-level "score" member (the last one wins)
RECURSIVE JsonScan(_, _, _, _, _)
JsonScan(toks, i, mode, depth, score) ==
    IF i > Len(toks)
    THEN [ok |-> mode = "end", score |-> score]
    ELSE LET tk == toks[i].t
             isScore == depth = 1 /\ tk = "member" /\ toks[i].key = "score"
             next == IF isScore THEN Num(toks[i].val * Unit) ELSE score
         IN
         CASE mode = "start" /\ tk = "{" -> JsonScan(toks, i + 1, "open", 1, score)
           [] mode \in {"open", "comma"} /\ tk = "member" ->
                JsonScan(toks, i + 1, "after", depth, next)
           [] mode \in {"open", "comma"} /\ tk = "key" ->
                JsonScan(toks, i + 1, "key", depth, score)
           [] mode = "key" /\ tk = "{" -> JsonScan(toks, i + 1, "open", depth + 1, score)
           [] mode \in {"open", "after"} /\ tk = "}" ->
                JsonScan(toks, i + 1, IF depth = 1 THEN "end" ELSE "after", depth - 1, score)
           [] mode = "after" /\ tk = "," -> JsonScan(toks, i + 1, "comma", depth, score)
           [] OTHER -> [ok |-> FALSE, score |-> Null]

JsonParse(toks) == JsonScan(toks, 1, "start", 0, Null)

\* response.match(/score[:\s]*(\d+\.?\d*)/i): the first prose score token
ScoreMatch(response) ==
    LET i == FirstIndex(response, "score:", 1)
    IN IF i > 0 THEN Num(response[i].val * Unit) ELSE Null

DefaultScore == 5

\* confidence is in tenths; Null when the document has none
\* a parser without fallback: a text that is no JSON document gives a
\* document without score and without confidence
parseAIResponseStrict(response) ==
    IF JsonMatch(response) # <<>> /\ JsonParse(JsonMatch(response)).ok
    THEN [score |-> JsonParse(JsonMatch(response)).score, confidence |-> Null]
    ELSE [score |-> Null, confidence |-> Null]

parseAIResponse(response) ==
    LET jsonMatch == JsonMatch(response)
        parsed == JsonParse(jsonMatch)
        scoreMatch == ScoreMatch(response)
    IN IF jsonMatch # <<>>
       THEN IF parsed.ok
            THEN [score |-> parsed.score, confidence |-> Null]
            ELSE [score |-> Num(DefaultScore * Unit), confidence |-> Num(3)]
       ELSE [score |-> IF scoreMatch # Null THEN scoreMatch ELSE Num(DefaultScore * Unit),
             confidence |-> Num(6)]

(***************************************************************************)
(* Analyze: POST /analyze                                                  *)
(***************************************************************************)
Kinds == {"quality", "relevance", "factual"}
\* the order in which handleAIAnalysis fills analysisResults
KindOrder == <<"quality", "relevance", "factual">>

\* x || null and x || 0 on a number or undefined
Falsy(x) == x = Null \/ x = NaN \/ (IsNum(x) /\ x.n = 0)
OrNull(x) == IF Falsy(x) THEN Null ELSE x
OrZero(x) == IF Falsy(x) THEN 0 ELSE x.n

\* the kinds of analysisResults, as Object.entries lists them
Entries(results) == SelectSeq(KindOrder, LAMBDA k : k \in DOMAIN results)

RECURSIVE SumScores(_, _)
SumScores(results, ks) ==
    IF ks = <<>> THEN 0
    ELSE OrZero(results[Head(ks)].score) + SumScores(results, Tail(ks))

\* Object.values(analysisResults).reduce(...) / Object.keys(analysisResults).length
AvgScore(results) ==
    LET n == Cardinality(DOMAIN results)
    IN IF n = 0 THEN NaN ELSE Num(SumScores(results, Entries(results)) \div n)

\* analysisResults.<kind>?.score || null
KindScore(results, kind) ==
    IF kind \in DOMAIN results THEN OrNull(results[kind].score) ELSE Null

\* a REAL parameter as SQLite stores it: NaN becomes NULL
Bind(x) == IF x = NaN THEN Null ELSE x

\* an UPDATE that writes the columns of the requested kinds only
UpdateScoresMerging(vid, results) ==
    [videos EXCEPT ![vid].ai = Bind(AvgScore(results)),
                   ![vid].quality = IF "quality" \in DOMAIN results
                                    THEN KindScore(results, "quality") ELSE @,
                   ![vid].relevance = IF "relevance" \in DOMAIN results
                                      THEN KindScore(results, "relevance") ELSE @,
                   ![vid].factual = IF "factual" \in DOMAIN results
                                    THEN KindScore(results, "factual") ELSE @]

\* UPDATE videos SET ai_rating_score = ?, content_quality_score = ?, ...
UpdateScores(vid, results) ==
    [videos EXCEPT ![vid].ai = Bind(AvgScore(results)),
                   ![vid].quality = KindScore(results, "quality"),
                   ![vid].relevance = KindScore(results, "relevance"),
                   ![vid].factual = KindScore(results, "factual")]

\* result.confidence || 0.8, in tenths
RowConfidence(doc) == IF Falsy(doc.confidence) THEN 8 ELSE doc.confidence.n

\* INSERT INTO ai_analysis: created_timestamp takes the schema's default,
\* the time of the request, counted in requests
AnalysisRow(vid, kind, doc) ==
    [video_id |-> vid, type |-> kind, score |-> doc.score,
     confidence |-> RowConfidence(doc), created |-> served + 1]

\* the loop runs in a transaction: a failing INSERT takes the earlier rows
\* back
InsertedRowsOrNone(vid, results, ks, n) ==
    IF n < Len(ks) THEN <<>>
    ELSE [i \in 1..Len(ks) |-> AnalysisRow(vid, ks[i], results[ks[i]])]

\* the rows the INSERT loop adds when its first n statements succeed
RECURSIVE InsertedRows(_, _, _, _)
InsertedRows(vid, results, ks, n) ==
    IF n = 0 \/ ks = <<>> THEN <<>>
    ELSE <<AnalysisRow(vid, Head(ks), results[Head(ks)])>>
         \o InsertedRows(vid, results, Tail(ks), n - 1)

\* the kinds handled before the statement that throws
FirstKinds(ks, n) == {ks[i] : i \in 1..n}

\* a lookup that keeps the videos without a transcript (LEFT JOIN)
FindTranscriptLeftJoin(videoId) == videoId \in 1..Len(videos)

\* SELECT t.* FROM transcripts t JOIN videos v ON t.video_id = v.id
\* WHERE v.id = ? finds a row
FindTranscript(videoId) ==
    /\ videoId \in 1..Len(videos)
    /\ \E i \in 1..Len(transcripts) : transcripts[i].video_id = videoId

\* the request is read, the transcript looked up, every requested kind
\* scored and the results inserted; a failing answer keeps which statement
\* threw and the kinds handled before it
AnalyzeBegin(p, typeInputs, responses) ==
    /\ IsIdle(p)
    /\ UNCHANGED <<videos, transcripts, r2, renders, conversions>>
    /\ \E videoId \in {NoId} \cup VideoIds :
        IF ~FindTranscript(videoId)
        THEN /\ analysis' = analysis
             /\ \/ Reply(p, [op |-> "analyze", code |-> 404, videoId |-> videoId])
                \/ \* bind(undefined) throws
                   /\ videoId = NoId
                   /\ Reply(p, [op |-> "analyze", code |-> 500, videoId |-> videoId])
        ELSE \E analysisTypes \in typeInputs :
             \E scored \in [analysisTypes \cap Kinds ->
                               {[answer |-> r, doc |-> parseAIResponse(r)] : r \in responses}] :
               LET answers == [k \in DOMAIN scored |-> scored[k].answer]
                   results == [k \in DOMAIN scored |-> scored[k].doc]
                   ks == Entries(results)
               IN
               \/ \* the Scoring Adapter throws at kind n + 1: nothing is
                  \* inserted yet
                  \E n \in 0..(Len(ks) - 1) :
                    /\ analysis' = analysis
                    /\ Reply(p, [op |-> "analyze", code |-> 500, videoId |-> videoId,
                                 failed |-> "score", succeeded |-> FirstKinds(ks, n)])
               \/ /\ Len(analysis) + Len(ks) <= MaxAnalysis
                  /\ \/ /\ analysis' = analysis \o InsertedRows(videoId, results, ks, Len(ks))
                        /\ procs' = [procs EXCEPT ![p] =
                              [op |-> "analyze", pc |-> "update", vid |-> videoId,
                               types |-> analysisTypes, answers |-> answers,
                               results |-> results]]
                        /\ resp' = resp
                     \/ \* the INSERT of row n + 1 throws
                        \E n \in 0..(Len(ks) - 1) :
                          /\ analysis' = analysis \o InsertedRows(videoId, results, ks, n)
                          /\ Reply(p, [op |-> "analyze", code |-> 500, videoId |-> videoId,
                                       failed |-> "insert",
                                       succeeded |-> FirstKinds(ks, n)])

\* the video's score columns are overwritten, and the response
AnalyzeUpdate(p) ==
    /\ procs[p].op = "analyze" /\ procs[p].pc = "update"
    /\ UNCHANGED <<transcripts, analysis, r2, renders, conversions>>
    /\ \/ /\ videos' = UpdateScores(procs[p].vid, procs[p].results)
          /\ Reply(p, [op |-> "analyze", code |-> 200, videoId |-> procs[p].vid,
                       averageScore |-> AvgScore(procs[p].results)])
       \/ \* the UPDATE throws
          /\ videos' = videos
          /\ Reply(p, [op |-> "analyze", code |-> 500, videoId |-> procs[p].vid])

\* the request's analysisTypes; the default is every kind
TypeInputs == SUBSET Kinds \cup {{"summary"}}
\* the Scoring Adapter's answers
Responses ==
    { <<Word, LB, Member("score", 8), Comma, Member("reasoning", 0), RB>>,
      <<LB, Member("reasoning", 0), RB>>,
      <<LB, Member("score", 0), RB>> }
\* answers whose score is off the scale
OffScaleResponses ==
    { <<LB, Member("score", 42), RB>>,
      <<LB, Member("score", -1), RB>> }

(***************************************************************************)
(* Speak: POST /tts                                                        *)
(***************************************************************************)
IsTerminator(c) == c \in {".", "!", "?"}

\* text.split(/[.!?]+/), from position i with the fragment cur in hand
RECURSIVE SplitFrom(_, _, _)
SplitFrom(text, i, cur) ==
    IF i > Len(text) THEN <<cur>>
    ELSE IF IsTerminator(text[i])
    THEN IF i > 1 /\ IsTerminator(text[i - 1])
         THEN SplitFrom(text, i + 1, cur)
         ELSE <<cur>> \o SplitFrom(text, i + 1, <<>>)
    ELSE SplitFrom(text, i + 1, Append(cur, text[i]))

RECURSIVE TrimStart(_)
TrimStart(t) == IF t # <<>> /\ Head(t) = " " THEN TrimStart(Tail(t)) ELSE t

RECURSIVE TrimEnd(_)
TrimEnd(t) ==
    IF t # <<>> /\ t[Len(t)] = " " THEN TrimEnd(SubSeq(t, 1, Len(t) - 1)) ELSE t

\* String.prototype.trim
Trim(t) == TrimEnd(TrimStart(t))

\* the loop of chunkText over the remaining sentences
RECURSIVE ChunkLoop(_, _, _, _)
ChunkLoop(sentences, chunks, currentChunk, maxChunkSize) ==
    IF sentences = <<>>
    THEN IF Trim(currentChunk) # <<>> THEN Append(chunks, Trim(currentChunk)) ELSE chunks
    ELSE LET sentence == Head(sentences) IN
         IF Len(currentChunk) + Len(sentence) > maxChunkSize /\ Len(currentChunk) > 0
         THEN ChunkLoop(Tail(sentences), Append(chunks, Trim(currentChunk)),
                        sentence, maxChunkSize)
         ELSE ChunkLoop(Tail(sentences), chunks,
                        currentChunk \o sentence \o <<".", " ">>, maxChunkSize)

chunkText(text, maxChunkSize) ==
    ChunkLoop(SplitFrom(text, 1, <<>>), <<>>, <<>>, maxChunkSize)

DefaultChunkSize == 1500
ChunkSizes == {DefaultChunkSize, 3}

\* the first transcript row of the video: SELECT ... first()
RECURSIVE FirstTranscript(_, _)
FirstTranscript(vid, i) ==
    IF transcripts[i].video_id = vid THEN transcripts[i] ELSE FirstTranscript(vid, i + 1)

\* one object per video: every chunk goes under the same key
ChunkKeyPerVideo(vid, i) == <<"tts", ToString(vid), "all">>

\* `tts/${transcript.video_id}-chunk-${i}.mp3`
ChunkKey(vid, i) == <<"tts", ToString(vid), ToString(i)>>

\* the request is read, the transcript looked up and split
SpeakBegin(p) ==
    /\ IsIdle(p)
    /\ UNCHANGED <<videos, transcripts, analysis, r2, renders, conversions>>
    /\ \E videoId \in {NoId} \cup VideoIds :
        IF videoId = NoId \/ ~HasTranscript(videoId)
        THEN \/ Reply(p, [op |-> "tts", code |-> 404, videoId |-> videoId])
             \/ \* bind(undefined) throws
                /\ videoId = NoId
                /\ Reply(p, [op |-> "tts", code |-> 500, videoId |-> videoId])
        ELSE \E chunkSize \in ChunkSizes :
               LET chunks == chunkText(FirstTranscript(videoId, 1).text, chunkSize) IN
               IF chunks = <<>>
               THEN Reply(p, [op |-> "tts", code |-> 200, videoId |-> videoId,
                            totalChunks |-> 0])
               ELSE /\ procs' = [procs EXCEPT ![p] =
                          [op |-> "tts", pc |-> "call", vid |-> videoId,
                           i |-> 0, n |-> Len(chunks)]]
                    /\ resp' = resp

\* a turn of the loop begins: await callTextToSpeech(chunks[i])
SpeakCall(p) ==
    /\ procs[p].op = "tts" /\ procs[p].pc = "call"
    /\ UNCHANGED <<videos, transcripts, analysis, r2, renders, conversions, resp>>
    /\ procs' = [procs EXCEPT ![p].pc = "put"]

\* the turn ends: the put of chunk i; after the last chunk, the response
SpeakPut(p) ==
    /\ procs[p].op = "tts" /\ procs[p].pc = "put"
    /\ UNCHANGED <<videos, transcripts, analysis, renders, conversions>>
    /\ \/ /\ r2' = r2 \cup {ChunkKey(procs[p].vid, procs[p].i)}
          /\ IF procs[p].i + 1 = procs[p].n
             THEN Reply(p, [op |-> "tts", code |-> 200, videoId |-> procs[p].vid,
                         totalChunks |-> procs[p].n])
             ELSE /\ procs' = [procs EXCEPT ![p].i = @ + 1, ![p].pc = "call"]
                  /\ resp' = resp
       \/ \* the put throws
          /\ r2' = r2
          /\ Reply(p, [op |-> "tts", code |-> 500, videoId |-> procs[p].vid])

(***************************************************************************)
(* Search: GET /search                                                     *)
(***************************************************************************)
DefaultLimit == 50

\* parseFloat(min_rating) || 0: the parameter is Null (absent, not a number)
\* or Num(sixths)
ParseMinRating(param) == OrZero(param)
\* parseInt(limit) || 50: the parameter is Null or Num(count)
ParseLimit(param) == IF Falsy(param) THEN DefaultLimit ELSE param.n

RECURSIVE Contains(_, _)
\* hay LIKE '%needle%'
Contains(hay, needle) ==
    IF Len(needle) > Len(hay) THEN FALSE
    ELSE IF SubSeq(hay, 1, Len(needle)) = needle THEN TRUE
    ELSE Contains(Tail(hay), needle)

\* column LIKE ? on a nullable column: NULL matches nothing
LikeNullable(col, needle) == col # Null /\ Contains(col, needle)

\* videos v JOIN transcripts t ON v.id = t.video_id, in scan order
RECURSIVE JoinFrom(_, _)
JoinFrom(v, t) ==
    IF v > Len(videos) THEN <<>>
    ELSE IF t > Len(transcripts) THEN JoinFrom(v + 1, 1)
    ELSE (IF transcripts[t].video_id = v THEN <<[v |-> v, t |-> t]>> ELSE <<>>)
         \o JoinFrom(v, t + 1)

\* the WHERE clause without its status term
SearchBaseAnyStatus(row, minRating) ==
    IsNum(videos[row.v].ai) /\ videos[row.v].ai.n >= minRating

\* WHERE v.transcription_status = 'completed' AND v.ai_rating_score >= ?
SearchBase(row, minRating) ==
    /\ videos[row.v].status = "completed"
    /\ IsNum(videos[row.v].ai) /\ videos[row.v].ai.n >= minRating

\* the WHERE clause with the optional q and category terms
SearchWhere(row, minRating, query, category) ==
    /\ SearchBase(row, minRating)
    /\ query # NoText =>
          \/ Contains(videos[row.v].title, query)
          \/ Contains(transcripts[row.t].text, query)
    /\ category # NoText => LikeNullable(videos[row.v].tags, category)

\* the position of the first row with the greatest ai_rating_score
RECURSIVE ArgMax(_, _, _)
ArgMax(rows, i, best) ==
    IF i > Len(rows) THEN best
    ELSE ArgMax(rows, i + 1,
           IF videos[rows[i].v].ai.n > videos[rows[best].v].ai.n THEN i ELSE best)

\* ORDER BY v.ai_rating_score DESC
RECURSIVE OrderByRating(_)
OrderByRating(rows) ==
    IF rows = <<>> THEN <<>>
    ELSE LET b == ArgMax(rows, 2, 1)
         IN <<rows[b]>> \o OrderByRating(SubSeq(rows, 1, b - 1) \o SubSeq(rows, b + 1, Len(rows)))

\* LIMIT ?: a negative limit is no limit
LimitRows(rows, limit) ==
    IF limit < 0 \/ limit >= Len(rows) THEN rows ELSE SubSeq(rows, 1, limit)

\* results.results for the request's raw parameters
SearchResults(q, minRatingParam, limitParam, category) ==
    LET minRating == ParseMinRating(minRatingParam)
        limit == ParseLimit(limitParam)
        rows == SelectSeq(JoinFrom(1, 1),
                  LAMBDA row : SearchWhere(row, minRating, q, category))
    IN LimitRows(OrderByRating(rows), limit)

QueryParams == {NoText, <<"y", "o">>, <<"z">>}
MinRatingParams == {Null, Num(4 * Unit)}
LimitParams == {Null, Num(0), Num(1)}
CategoryParams == {NoText, <<"q">>}

\* a search that keeps its rendered result in the bucket
handleSearchCaching(p) ==
    /\ IsIdle(p)
    /\ UNCHANGED <<videos, transcripts, analysis, renders, conversions>>
    /\ r2' = r2 \cup {<<"search", "cache">>}
    /\ \E q \in QueryParams, minRating \in MinRatingParams,
          limit \in LimitParams, category \in CategoryParams :
         Reply(p, [op |-> "search", code |-> 200,
                   total |-> Len(SearchResults(q, minRating, limit, category))])

handleSearch(p) ==
    /\ IsIdle(p)
    /\ UNCHANGED <<videos, transcripts, analysis, r2, renders, conversions>>
    /\ \/ \E q \in QueryParams, minRating \in MinRatingParams,
             limit \in LimitParams, category \in CategoryParams :
            Reply(p, [op |-> "search", code |-> 200,
                      total |-> Len(SearchResults(q, minRating, limit, category))])
       \/ \* the SELECT throws
          Reply(p, [op |-> "search", code |-> 500])

\* GET /status
handleStatus(p) ==
    /\ IsIdle(p)
    /\ UNCHANGED <<videos, transcripts, analysis, r2, renders, conversions>>
    /\ \E code \in {200, 500} : Reply(p, [op |-> "status", code |-> code])

(***************************************************************************)
(* Render: POST /render                                                    *)
(***************************************************************************)
handleBrowserRendering(p) ==
    /\ IsIdle(p)
    /\ UNCHANGED <<videos, transcripts, analysis, r2, conversions>>
    /\ \/ \* neither url nor html
          /\ renders' = renders
          /\ Reply(p, [op |-> "render", code |-> 400, lacks |-> TRUE])
       \/ \* the Render Adapter or the INSERT throws
          /\ renders' = renders
          /\ Reply(p, [op |-> "render", code |-> 500, lacks |-> FALSE])
       \/ \* html only, or a result without success: nothing is stored
          /\ renders' = renders
          /\ Reply(p, [op |-> "render", code |-> 200, lacks |-> FALSE])
       \/ \* INSERT INTO browser_renders
          /\ renders < MaxRenders
          /\ renders' = renders + 1
          /\ Reply(p, [op |-> "render", code |-> 200, lacks |-> FALSE])

\* a request is received, within the budget of the specification
Receive == served < MaxRequests /\ served' = served + 1 /\ UNCHANGED <<arg, out>>
\* a request in progress goes on
Continue == served' = served /\ UNCHANGED <<arg, out>>

Next ==
    \E p \in Procs :
        \/ Receive /\ handleUrlContent(p)
        \/ Receive /\ handleStreamUpload(p)
        \/ Receive /\ handleFileUpload(p)
        \/ Receive /\ handleInitiateUpload(p)
        \/ Receive /\ TranscribeBegin(p)
        \/ Continue /\ TranscribeWork(p)
        \/ Continue /\ TranscribeComplete(p)
        \/ Continue /\ TranscribeCatch(p)
        \/ Receive /\ AnalyzeBegin(p, TypeInputs, Responses)
        \/ Continue /\ AnalyzeUpdate(p)
        \/ Receive /\ SpeakBegin(p)
        \/ Continue /\ SpeakCall(p)
        \/ Continue /\ SpeakPut(p)
        \/ Receive /\ handleSearch(p)
        \/ Receive /\ handleStatus(p)
        \/ Receive /\ handleBrowserRendering(p)
        \/ Receive /\ Preflight(p)
        \/ Receive /\ ApiInfo(p)
        \/ Receive /\ BodyRejected(p)

Spec == Init /\ [][Next]_vars

(***************************************************************************)
(* The requests Search depends on, followed one request further: URL and   *)
(* Stream ingests, Transcribe, Analyze for the quality kind, Search        *)
(***************************************************************************)
ReceiveSearch ==
    served < MaxSearchRequests /\ served' = served + 1 /\ UNCHANGED <<arg, out>>

NextSearch ==
    \E p \in Procs :
        \/ ReceiveSearch /\ handleUrlContent(p)
        \/ ReceiveSearch /\ handleStreamUpload(p)
        \/ ReceiveSearch /\ TranscribeBegin(p)
        \/ Continue /\ TranscribeWork(p)
        \/ Continue /\ TranscribeComplete(p)
        \/ Continue /\ TranscribeCatch(p)
        \/ ReceiveSearch /\ AnalyzeBegin(p, {{"quality"}}, Responses)
        \/ Continue /\ AnalyzeUpdate(p)
        \/ ReceiveSearch /\ handleSearch(p)

SpecSearch == Init /\ [][NextSearch]_vars

(***************************************************************************)
(* Analyze with a Scoring Adapter that may answer any score: URL ingests   *)
(* and Analyze requests                                                    *)
(***************************************************************************)
NextAnalyze ==
    \E p \in Procs :
        \/ Receive /\ handleUrlContent(p)
        \/ Receive /\ AnalyzeBegin(p, TypeInputs, Responses \cup OffScaleResponses)
        \/ Continue /\ AnalyzeUpdate(p)

SpecAnalyze == Init /\ [][NextAnalyze]_vars

(***************************************************************************)
(* Analyze with a Scoring Adapter that may answer any text: URL ingests    *)
(* and Analyze requests for one or two kinds                               *)
(***************************************************************************)
\* answers that are no JSON document: prose, prose with a score, an
\* object text JSON.parse rejects
UnparseableResponses ==
    { <<Word>>, <<Word, ScoreTok(7)>>, <<LB, ScoreTok(7), RB>> }

DegradeTypeInputs == {{"quality"}, {"quality", "relevance"}}

NextDegrade ==
    \E p \in Procs :
        \/ Receive /\ handleUrlContent(p)
        \/ Receive /\ AnalyzeBegin(p, DegradeTypeInputs,
                         Responses \cup UnparseableResponses)
        \/ Continue /\ AnalyzeUpdate(p)

SpecDegrade == Init /\ [][NextDegrade]_vars

(***************************************************************************)
(* A video transcribed again, scored and searched: Stream ingest,          *)
(* Transcribe, Analyze for the quality kind, Search                        *)
(***************************************************************************)
\* the requests accepted in a behaviour of SpecRepeat
MaxRepeatRequests == 5

ReceiveRepeat ==
    served < MaxRepeatRequests /\ served' = served + 1 /\ UNCHANGED <<arg, out>>

NextRepeat ==
    \E p \in Procs :
        \/ ReceiveRepeat /\ handleStreamUpload(p)
        \/ ReceiveRepeat /\ TranscribeBegin(p)
        \/ Continue /\ TranscribeWork(p)
        \/ Continue /\ TranscribeComplete(p)
        \/ Continue /\ TranscribeCatch(p)
        \/ ReceiveRepeat /\ AnalyzeBegin(p, {{"quality"}}, Responses)
        \/ Continue /\ AnalyzeUpdate(p)
        \/ ReceiveRepeat /\ handleSearch(p)

SpecRepeat == Init /\ [][NextRepeat]_vars

(***************************************************************************)
(* Two requests handled at a time: an await of one lets the other run.     *)
(* Stream ingests with Transcribe, and URL ingests with Analyze            *)
(***************************************************************************)
\* requests a behaviour of SpecOverlap receives
MaxOverlapRequests == 3

Slots == {1, 2}

InitOverlap ==
    /\ videos = <<>>
    /\ transcripts = <<>>
    /\ analysis = <<>>
    /\ r2 = {}
    /\ renders = 0
    /\ conversions = 0
    /\ procs = [p \in Slots |-> Idle]
    /\ resp = [op |-> "none", code |-> 0]
    /\ served = 0
    /\ arg = NotCalled
    /\ out = NotCalled

ReceiveOverlap ==
    served < MaxOverlapRequests /\ served' = served + 1 /\ UNCHANGED <<arg, out>>

NextOverlapTranscribe ==
    \E p \in Slots :
        \/ ReceiveOverlap /\ handleStreamUpload(p)
        \/ ReceiveOverlap /\ TranscribeBegin(p)
        \/ Continue /\ TranscribeWork(p)
        \/ Continue /\ TranscribeComplete(p)
        \/ Continue /\ TranscribeCatch(p)

SpecOverlapTranscribe == InitOverlap /\ [][NextOverlapTranscribe]_vars

\* the kinds two overlapping requests ask for
OverlapTypeInputs == {{"quality"}, {"relevance"}, {"quality", "factual"}}

NextOverlapAnalyze ==
    \E p \in Slots :
        \/ ReceiveOverlap /\ handleUrlContent(p)
        \/ ReceiveOverlap /\ AnalyzeBegin(p, OverlapTypeInputs, Responses)
        \/ Continue /\ AnalyzeUpdate(p)

SpecOverlapAnalyze == InitOverlap /\ [][NextOverlapAnalyze]_vars

(***************************************************************************)
(* parseAIResponse called on its own, on every short response text         *)
(***************************************************************************)
MaxTokens == 4

ResponseTokens ==
    {Word, LB, RB, Comma, Member("score", 8), Member("reasoning", 0), ScoreTok(7)}
ResponseTexts == UNION {[1..n -> ResponseTokens] : n \in 0..MaxTokens}

\* the tables are empty and no request is being handled
StoreAtRest ==
    /\ videos = <<>> /\ transcripts = <<>> /\ analysis = <<>>
    /\ r2 = {} /\ renders = 0 /\ conversions = 0
    /\ procs = [p \in Procs |-> Idle]
    /\ resp = [op |-> "none", code |-> 0]
    /\ served = 0

InitParse == StoreAtRest /\ arg \in ResponseTexts /\ out = NotCalled

ParseCall ==
    /\ out = NotCalled
    /\ out' = Result(parseAIResponse(arg))
    /\ UNCHANGED <<videos, transcripts, analysis, r2, renders, conversions, procs, resp, served, arg>>

SpecParse == InitParse /\ [][ParseCall]_vars

(***************************************************************************)
(* chunkText called on its own, on every short text and small maximum      *)
(***************************************************************************)
MaxChars == 5

ChunkChars == {"a", " ", ".", "!"}
ChunkTexts == UNION {[1..n -> ChunkChars] : n \in 0..MaxChars}
ChunkLimits == {1, 2, 3, 4, DefaultChunkSize}

InitChunk ==
    /\ StoreAtRest
    /\ arg \in [text : ChunkTexts, maxChunkSize : ChunkLimits]
    /\ out = NotCalled

ChunkCall ==
    /\ out = NotCalled
    /\ out' = Result(chunkText(arg.text, arg.maxChunkSize))
    /\ UNCHANGED <<videos, transcripts, analysis, r2, renders, conversions, procs, resp, served, arg>>

SpecChunk == InitChunk /\ [][ChunkCall]_vars

(***************************************************************************)
(* Properties                                                              *)
(***************************************************************************)
AllIdle == \A p \in Procs : IsIdle(p)
\* a step that receives a request and answers it at once
AnsweredAtOnce == served' = served + 1 /\ procs' = procs
\* a step in which slot p ends the request of kind op it was handling
Ends(p, op) == procs[p].op = op /\ procs'[p].op = "idle"

\* C1: a Transcribe invocation on an existing video, whatever path it takes
\* (a store-write error included), ends with the video's status completed
\* or failed.
C1_TranscribeEndsCompletedOrFailed ==
    [][\A p \in Procs :
         Ends(p, "transcribe")
            => videos'[procs[p].vid].status \in {"completed", "failed"}]_vars

\* C2: the status of every video is always one of pending, processing,
\* completed, failed.
C2_StatusInDocumentedSet ==
    \A i \in 1..Len(videos) : videos[i].status \in Statuses

\* an article ingested as completed next to a video whose Transcribe failed
C2_CompletedAndFailed ==
    \E i, j \in 1..Len(videos) :
        /\ videos[i].status = "completed" /\ videos[i].file_path = Extracted
        /\ videos[j].status = "failed"

\* C3 as stated: every ingest path creates the video with status pending.
C3_IngestCreatesPending ==
    [][Len(videos') > Len(videos)
         => videos'[Len(videos')].status = "pending"]_vars

\* C3 amended: every ingest path creates the video with status pending,
\* except the URL ingest with content_type article (the row whose locator
\* is the extracted marker), which creates it with status completed.
C3_IngestCreatesPendingUnlessArticle ==
    [][Len(videos') > Len(videos)
         => LET v == videos'[Len(videos')]
            IN v.status = IF resp'.op = "upload_url" /\ v.file_path = Extracted
                          THEN "completed" ELSE "pending"]_vars

\* an article has just been ingested as completed after a pending video
C3_ArticleAfterPending ==
    /\ AllIdle /\ resp.op = "upload_url" /\ resp.code = 200
    /\ Len(videos) = 2
    /\ videos[1].status = "pending" /\ videos[1].file_path # Extracted
    /\ videos[2].status = "completed" /\ videos[2].file_path = Extracted

\* C4: a Transcribe invocation that fails for any reason sets the video's
\* status to failed and reports the error with HTTP 500.
C4_TranscribeFailureSetsFailed ==
    [][\A p \in Procs :
         (Ends(p, "transcribe") /\ resp'.code # 200)
            => /\ videos'[procs[p].vid].status = "failed"
               /\ resp'.code = 500]_vars

Returned(results) == {k \in DOMAIN results : IsNum(results[k].score)}

RECURSIVE SumReturned(_, _)
SumReturned(results, ks) ==
    IF ks = {} THEN 0
    ELSE LET k == CHOOSE x \in ks : TRUE
         IN results[k].score.n + SumReturned(results, ks \ {k})

\* the unweighted mean of the scores the batch returned
MeanReturned(results) ==
    Num(SumReturned(results, Returned(results)) \div Cardinality(Returned(results)))

\* C6: after an Analyze that succeeds, the video's ai_rating_score and the
\* response's averageScore are the unweighted mean of the per-kind scores
\* the batch actually returned (a document without a score returns none, a
\* score of 0 is a score).
C6_OverallScoreIsMeanOfReturned ==
    [][\A p \in Procs :
         (Ends(p, "analyze") /\ resp'.code = 200
            /\ Returned(procs[p].results) # {})
            => /\ resp'.averageScore = MeanReturned(procs[p].results)
               /\ videos'[procs[p].vid].ai = MeanReturned(procs[p].results)]_vars

\* C7: an Analyze that succeeds leaves the score column of every kind it
\* was not asked for at its previous value.
C7_UnrequestedKindsKeepValue ==
    [][\A p \in Procs :
         (Ends(p, "analyze") /\ resp'.code = 200)
            => LET vid == procs[p].vid
                   requested == DOMAIN procs[p].results
               IN /\ "quality" \notin requested
                       => videos'[vid].quality = videos[vid].quality
                  /\ "relevance" \notin requested
                       => videos'[vid].relevance = videos[vid].relevance
                  /\ "factual" \notin requested
                       => videos'[vid].factual = videos[vid].factual]_vars

\* C8: whatever its parameters, Search returns no video whose status is
\* pending, processing or failed.
C8_SearchReturnsOnlyCompleted ==
    \A q \in QueryParams, minRating \in MinRatingParams,
       limit \in LimitParams, category \in CategoryParams :
        LET rows == SearchResults(q, minRating, limit, category)
        IN \A i \in 1..Len(rows) : videos[rows[i].v].status = "completed"

\* Search has just answered while a video that is not completed has a
\* transcript and an overall score
C8_SearchedWithScoredUncompleted ==
    /\ AllIdle /\ resp.op = "search" /\ resp.code = 200
    /\ \E v \in 1..Len(videos) :
        /\ videos[v].status \in {"pending", "processing", "failed"}
        /\ HasTranscript(v)
        /\ IsNum(videos[v].ai)

\* C9: Search with min_rating = m returns only videos whose overall score
\* is at least m, in non-increasing order of overall score, and at most
\* limit of them (at most 50 when limit is absent).
C9_SearchFiltersOrdersAndCaps ==
    \A q \in QueryParams, minRating \in MinRatingParams,
       limit \in LimitParams, category \in CategoryParams :
        LET rows == SearchResults(q, minRating, limit, category)
            score(i) == videos[rows[i].v].ai
        IN /\ minRating # Null
                => \A i \in 1..Len(rows) : IsNum(score(i)) /\ score(i).n >= minRating.n
           /\ \A i, j \in 1..Len(rows) : i < j => score(i).n >= score(j).n
           /\ Len(rows) <= (IF limit = Null THEN DefaultLimit ELSE limit.n)

\* C10: with min_rating omitted no score filter applies: every completed
\* video with a transcript that matches the other filters is returned,
\* whatever its overall score, a video never analyzed included.
C10_NoMinRatingNoScoreFilter ==
    \A q \in QueryParams, category \in CategoryParams :
        LET rows == SearchResults(q, Null, Null, category)
        IN \A v \in 1..Len(videos), t \in 1..Len(transcripts) :
             (/\ transcripts[t].video_id = v
              /\ videos[v].status = "completed"
              /\ q # NoText => \/ Contains(videos[v].title, q)
                                \/ Contains(transcripts[t].text, q)
              /\ category # NoText => LikeNullable(videos[v].tags, category))
                => \E i \in 1..Len(rows) : rows[i].v = v

\* a well-formed JSON object without nesting: members separated by commas
IsFlatObject(toks) ==
    /\ Len(toks) >= 2 /\ toks[1] = LB /\ toks[Len(toks)] = RB
    /\ Len(toks) = 2 \/ Len(toks) % 2 = 1
    /\ \A k \in 2..(Len(toks) - 1) :
         IF k % 2 = 0 THEN toks[k].t = "member" ELSE toks[k] = Comma

\* where the text holds a well-formed JSON object
ObjectsIn(text) ==
    {ij \in (1..Len(text)) \X (1..Len(text)) :
        ij[1] < ij[2] /\ IsFlatObject(SubSeq(text, ij[1], ij[2]))}

ScoreTokensIn(text) == {k \in 1..Len(text) : text[k].t = "score:"}

\* C11: a response text that contains a well-formed JSON object with a
\* score field X, whatever surrounds the object (other text, further
\* braces, a second object), parses to score X; a text with no JSON object
\* but a 'score: N' token parses to N; a text with neither parses to 5.0.
C11_ParsedScore ==
    HasResult =>
        /\ \A ij \in ObjectsIn(arg) : \A k \in ij[1]..ij[2] :
              (arg[k].t = "member" /\ arg[k].key = "score")
                 => out.value.score = Num(arg[k].val * Unit)
        /\ (ObjectsIn(arg) = {} /\ ScoreTokensIn(arg) # {})
              => \E k \in ScoreTokensIn(arg) :
                    /\ \A l \in ScoreTokensIn(arg) : k <= l
                    /\ out.value.score = Num(arg[k].val * Unit)
        /\ (ObjectsIn(arg) = {} /\ ScoreTokensIn(arg) = {})
              => out.value.score = Num(5 * Unit)

\* the sentence fragments of a text: what lies between terminators, without
\* the surrounding blanks, the empty ones left out
Fragments(text) ==
    LET pieces == SplitFrom(text, 1, <<>>)
        trimmed == [i \in 1..Len(pieces) |-> Trim(pieces[i])]
    IN SelectSeq(trimmed, LAMBDA f : f # <<>>)

\* the fragments of the chunks in order, the separators '. ' left out
RECURSIVE ChunkFragments(_)
ChunkFragments(chunks) ==
    IF chunks = <<>> THEN <<>>
    ELSE Fragments(Head(chunks)) \o ChunkFragments(Tail(chunks))

\* C12: for any text and any positive maximum length, the chunks of
\* chunkText, read in order with the inserted separators left out, give
\* back the sentence fragments of the text: none dropped, duplicated,
\* reordered or split across two chunks.
C12_ChunksReproduceFragments ==
    HasResult => ChunkFragments(out.value) = Fragments(arg.text)

\* the byte source the locator calls for
ExpectedSource(path) ==
    IF StartsWithStream(path) THEN "stream"
    ELSE IF path = Extracted THEN "none"
    ELSE "r2"

\* C13: Transcribe takes the bytes from the adapter the locator names: the
\* Video Host for a 'stream:' locator, the Content Store for any other key,
\* and no adapter at all for the literal 'extracted' locator.
C13_ByteSourceFollowsLocator ==
    [][\A p \in Procs :
         (InTranscribe(p, "work") /\ procs'[p].pc # "work"
            /\ videos[procs[p].vid].file_path # NoPath)
            => procs'[p].src = ExpectedSource(videos[procs[p].vid].file_path)]_vars

\* a Transcribe request for video i is received and its first write sets
\* the status to processing
ReentersProcessing(i) ==
    /\ served' = served + 1
    /\ videos'[i].status = "processing"
    /\ \E p \in Procs :
         IsIdle(p) /\ procs'[p].op = "transcribe" /\ procs'[p].vid = i

\* a Transcribe invocation for video i marks it failed from its catch block
FailsInCatch(i) ==
    /\ videos'[i].status = "failed"
    /\ \E p \in Procs : InTranscribe(p, "catch") /\ procs[p].vid = i

C15_TranscriptsAppendOnly ==
    [][/\ Len(transcripts') >= Len(transcripts)
       /\ SubSeq(transcripts', 1, Len(transcripts)) = transcripts
       /\ \A p \in Procs :
            (procs'[p] # procs[p]
               /\ (procs[p].op = "transcribe" \/ procs'[p].op = "transcribe"))
              => IF InTranscribe(p, "work") /\ procs'[p].pc = "complete"
                 THEN /\ Len(transcripts') = Len(transcripts) + 1
                      /\ transcripts'[Len(transcripts')].video_id = procs[p].vid
                 ELSE transcripts' = transcripts]_vars

\* a second successful Transcribe of a video has just answered
C15_TranscribedTwice ==
    /\ AllIdle /\ resp.op = "transcribe" /\ resp.code = 200
    /\ \E i, j \in 1..Len(transcripts) :
         i < j /\ transcripts[i].video_id = transcripts[j].video_id

OnScale(x) == x = Null \/ (IsNum(x) /\ 0 <= x.n /\ x.n <= 10 * Unit)

\* C16: each of a video's four score columns is null or a value in
\* [0, 10], whatever the Scoring Adapter answers.
C16_ScoresOnScale ==
    \A i \in 1..Len(videos) :
        /\ OnScale(videos[i].ai) /\ OnScale(videos[i].quality)
        /\ OnScale(videos[i].relevance) /\ OnScale(videos[i].factual)

\* the analysis rows of video vid of kind k
RowsOf(rows, vid, k) ==
    {n \in 1..Len(rows) : rows[n].video_id = vid /\ rows[n].type = k}

\* C17: an Analyze that succeeds has inserted exactly one analysis row for
\* each requested kind among quality, relevance, factual and no other row;
\* when only quality was requested for a video never analyzed before and
\* the adapter returned a score, the video has exactly one row, of kind
\* quality, content_quality_score is that score and
\* research_relevance_score is still null.
C17_OneRowPerRequestedKind ==
    [][\A p \in Procs :
         /\ (IsIdle(p) /\ procs'[p].op = "analyze")
              => LET vid == procs'[p].vid
                     requested == procs'[p].types \cap Kinds
                 IN /\ Len(analysis') = Len(analysis) + Cardinality(requested)
                    /\ SubSeq(analysis', 1, Len(analysis)) = analysis
                    /\ \A k \in requested :
                         Cardinality(RowsOf(analysis', vid, k))
                            = Cardinality(RowsOf(analysis, vid, k)) + 1
         /\ (Ends(p, "analyze") /\ resp'.code = 200)
              => LET vid == procs[p].vid
                     mine == {n \in 1..Len(analysis) : analysis[n].video_id = vid}
                 IN /\ analysis' = analysis
                    /\ (/\ procs[p].types = {"quality"}
                        /\ Cardinality(mine) = 1
                        /\ IsNum(procs[p].results["quality"].score))
                         => /\ \A n \in mine : analysis[n].type = "quality"
                            /\ videos'[vid].quality = procs[p].results["quality"].score
                            /\ videos'[vid].relevance = Null]_vars

\* the number of words of a text: its maximal runs of characters that are
\* not blanks
Words(t) ==
    Cardinality({i \in 1..Len(t) : t[i] # " " /\ (i = 1 \/ t[i - 1] = " ")})

\* C18: a Transcribe of a pending video in which every step succeeds and
\* the adapter returns the text T takes the status from pending to
\* processing, then inserts exactly one transcript row, of T, while the
\* status is processing, then sets the status to completed; the word count
\* stored in the row and the one reported are the number of words of T.
C18_TranscribeHappyPath ==
    [][\A p \in Procs :
         /\ (IsIdle(p) /\ procs'[p].op = "transcribe" /\ procs'[p].pc = "work"
               /\ videos[procs'[p].vid].status = "pending")
              => videos'[procs'[p].vid].status = "processing"
         /\ (InTranscribe(p, "work") /\ procs'[p].pc = "complete")
              => LET row == transcripts'[Len(transcripts')]
                 IN /\ Len(transcripts') = Len(transcripts) + 1
                    /\ row.video_id = procs[p].vid
                    /\ row.text = procs'[p].text
                    /\ row.word_count = Words(row.text)
                    /\ videos' = videos
         /\ (InTranscribe(p, "complete") /\ procs'[p].op = "idle")
              => /\ resp'.code = 200
                 /\ videos'[procs[p].vid].status = "completed"
                 /\ transcripts' = transcripts
                 /\ resp'.wordCount = Words(procs[p].text)]_vars

\* the request answered by r came without its required field
LacksRequired(r) ==
    CASE r.op \in {"transcribe", "analyze", "tts"} -> r.videoId = NoId
      [] r.op \in {"upload_url", "upload_file", "initiate_upload", "render"} -> r.lacks
      [] OTHER -> FALSE

\* C19: a stage request that lacks its required field (videoId for
\* Transcribe, Analyze and Speak, name for initiate-upload, url for the URL
\* ingest, the file for the multipart upload, url or html for Render) is
\* answered at once with HTTP 400 and writes nothing to the store.
C19_MissingFieldRejected ==
    [][/\ (AnsweredAtOnce /\ LacksRequired(resp'))
          => /\ resp'.code = 400
             /\ UNCHANGED <<videos, transcripts, analysis, r2, renders, conversions>>
       /\ \A p \in Procs :
            (IsIdle(p) /\ ~IsIdle(p)') => procs'[p].vid # NoId]_vars

\* C20: Search and Status are pure reads: the step that answers either
\* leaves every table and the content store as they were.
C20_SearchAndStatusPureReads ==
    [][(AnsweredAtOnce /\ resp'.op \in {"search", "status"})
         => UNCHANGED <<videos, transcripts, analysis, r2, renders, conversions>>]_vars

\* a search has just returned a video
C20_SearchReturnedVideo ==
    /\ AllIdle /\ resp.op = "search" /\ resp.code = 200
    /\ resp.total >= 1

\* C21: every response the router produces (success, 400, 404, 500, the
\* OPTIONS preflight, the default API info, the answer of the top-level
\* catch) carries the permissive cross-origin headers.
C21_EveryResponseCarriesCors ==
    resp.op # "none" => corsHeaders \subseteq resp.headers

\* the top-level catch has just answered a request whose body could not be
\* read
C21_RouterCatchAnswered ==
    AllIdle /\ resp.op = "body" /\ resp.code = 500

\* the score column of a video row for a kind
Column(row, kind) ==
    CASE kind = "quality" -> row.quality
      [] kind = "relevance" -> row.relevance
      [] kind = "factual" -> row.factual

\* the four score columns of a video row
ScoreColumns(row) == <<row.ai, row.quality, row.relevance, row.factual>>

\* the rows a step appends to ai_analysis
AddedRows == SubSeq(analysis', Len(analysis) + 1, Len(analysis'))

\* C22 as stated: when an Analyze fails after some requested kinds have
\* succeeded (the adapter throws at a later kind, a later INSERT throws,
\* the UPDATE throws), the rows of the kinds that succeeded are persisted
\* and the video's score columns are written from those kinds.
C22_PartialFailureWritesScores ==
    [][/\ (/\ AnsweredAtOnce /\ resp'.op = "analyze" /\ resp'.code = 500
            /\ FindTranscript(resp'.videoId))
          => \A k \in resp'.succeeded :
               \E n \in 1..Len(AddedRows) :
                 /\ AddedRows[n].video_id = resp'.videoId
                 /\ AddedRows[n].type = k
                 /\ Column(videos'[resp'.videoId], k) = AddedRows[n].score
       /\ \A p \in Procs :
            (Ends(p, "analyze") /\ resp'.code = 500)
              => \A k \in DOMAIN procs[p].results :
                   /\ RowsOf(analysis', procs[p].vid, k) # {}
                   /\ Column(videos'[procs[p].vid], k) = procs[p].results[k].score]_vars

\* C22 amended: when an Analyze fails after some requested kinds have
\* succeeded, the rows inserted before the failure stay persisted: one row
\* per kind handled before a failing INSERT, every row of the batch before
\* a failing UPDATE, and none when the Scoring Adapter fails (every kind is
\* scored before the first INSERT); the video's score columns are left as
\* they were, for they are written only by the UPDATE of an Analyze in
\* which every step succeeded.
C22_PartialFailureKeepsRowsOnly ==
    [][/\ (/\ AnsweredAtOnce /\ resp'.op = "analyze" /\ resp'.code = 500
            /\ FindTranscript(resp'.videoId))
          => /\ videos' = videos
             /\ analysis' = analysis \o AddedRows
             /\ IF resp'.failed = "score"
                THEN analysis' = analysis
                ELSE /\ Len(AddedRows) = Cardinality(resp'.succeeded)
                     /\ \A k \in resp'.succeeded :
                          \E n \in 1..Len(AddedRows) :
                            /\ AddedRows[n].video_id = resp'.videoId
                            /\ AddedRows[n].type = k
       /\ \A p \in Procs :
            (Ends(p, "analyze") /\ resp'.code = 500)
              => /\ videos' = videos
                 /\ analysis' = analysis
                 /\ \A k \in DOMAIN procs[p].results :
                      RowsOf(analysis, procs[p].vid, k) # {}
       /\ (\E i \in 1..Len(videos) : ScoreColumns(videos'[i]) # ScoreColumns(videos[i]))
            => \E p \in Procs : Ends(p, "analyze") /\ resp'.code = 200]_vars

\* an Analyze has just failed at its second INSERT: the row of its first
\* kind is the only analysis row and the video has no score
C22_FirstRowLeftBehind ==
    /\ AllIdle /\ resp.op = "analyze" /\ resp.code = 500
    /\ FindTranscript(resp.videoId)
    /\ resp.failed = "insert" /\ Cardinality(resp.succeeded) = 1
    /\ Len(analysis) = 1
    /\ analysis[1].video_id = resp.videoId /\ analysis[1].type \in resp.succeeded
    /\ ScoreColumns(videos[resp.videoId]) = <<Null, Null, Null, Null>>

\* the greatest element of a set of numbers
Greatest(S) == CHOOSE n \in S : \A m \in S : m <= n

\* the rows of the batch inserted last for video vid
LastBatch(vid) ==
    LET mine == {n \in 1..Len(analysis) : analysis[n].video_id = vid}
        last == Greatest({analysis[n].created : n \in mine})
    IN {n \in mine : analysis[n].created = last}

RECURSIVE SumRows(_)
SumRows(ns) ==
    IF ns = {} THEN 0
    ELSE LET n == CHOOSE x \in ns : TRUE
         IN analysis[n].score.n + SumRows(ns \ {n})

\* C23: whenever no Analyze is in flight, each per-kind score column of a
\* video equals the score of the analysis row inserted last for that
\* video and kind, and ai_rating_score equals the mean of the per-kind
\* scores of the batch inserted last for the video.
C23_ScoresProjectLatestRows ==
    (\A p \in Procs : procs[p].op # "analyze")
      => \A i \in 1..Len(videos) :
           /\ \A k \in Kinds :
                RowsOf(analysis, i, k) # {}
                  => Column(videos[i], k) = analysis[Greatest(RowsOf(analysis, i, k))].score
           /\ (\E n \in 1..Len(analysis) : analysis[n].video_id = i)
                => LET scored == {n \in LastBatch(i) : IsNum(analysis[n].score)}
                   IN scored # {}
                        => videos[i].ai = Num(SumRows(scored) \div Cardinality(scored))

\* C24: Transcribe has no guard against duplicate invocations: a request
\* for an existing video is never turned away, whatever else is in
\* flight; each invocation whose transcription succeeds inserts its own
\* row, and each status write sets the status whatever the other
\* invocation wrote.  (That the status can be failed next to the row of an
\* overlapping successful invocation is the state C24_FailedBesideOverlappingSuccess.)
C24_NoGuardOnDuplicateTranscribe ==
    [][/\ (AnsweredAtOnce /\ resp'.op = "transcribe")
          => /\ resp'.code \in {400, 404}
             /\ resp'.videoId \notin 1..Len(videos)
       /\ \A p \in Slots :
            /\ (InTranscribe(p, "work") /\ procs'[p].pc = "complete")
                 => transcripts'
                      = Append(transcripts, TranscriptRow(procs[p].vid, procs'[p].text))
            /\ (InTranscribe(p, "complete") /\ procs'[p].op = "idle")
                 => videos'[procs[p].vid].status = "completed"
            /\ (InTranscribe(p, "catch") /\ procs'[p].op = "idle" /\ videos' # videos)
                 => videos'[procs[p].vid].status = "failed"]_vars

\* one invocation has inserted its row and not yet written completed; the
\* other, begun for the same video, has failed since: the status is failed
\* beside the row
C24_FailedBesideOverlappingSuccess ==
    \E p, q \in Slots :
        /\ p # q
        /\ InTranscribe(p, "complete") /\ IsIdle(q)
        /\ resp.op = "transcribe" /\ resp.code = 500
        /\ resp.videoId = procs[p].vid
        /\ videos[procs[p].vid].status = "failed"
        /\ \E n \in 1..Len(transcripts) :
             /\ transcripts[n].video_id = procs[p].vid
             /\ transcripts[n].text = procs[p].text

\* the four values an invocation computes from its own batch
Computed(results) ==
    <<Bind(AvgScore(results)), KindScore(results, "quality"),
      KindScore(results, "relevance"), KindScore(results, "factual")>>

\* C25: with two Analyze invocations in flight, a score write wins as a
\* whole: the UPDATE of an invocation leaves in the four score columns the
\* values that invocation computed, whatever the other wrote before, no
\* other step changes a score column, and the analysis rows of both
\* invocations stay.
C25_LaterScoreWriteWinsWhole ==
    [][/\ \A p \in Slots :
            (Ends(p, "analyze") /\ resp'.code = 200)
              => /\ ScoreColumns(videos'[procs[p].vid]) = Computed(procs[p].results)
                 /\ \A i \in 1..Len(videos) :
                      i # procs[p].vid => videos'[i] = videos[i]
       /\ (\E i \in 1..Len(videos) : ScoreColumns(videos'[i]) # ScoreColumns(videos[i]))
            => \E p \in Slots : Ends(p, "analyze") /\ resp'.code = 200
       /\ Len(analysis') >= Len(analysis)
       /\ SubSeq(analysis', 1, Len(analysis)) = analysis]_vars

\* both invocations have returned; the one received first wrote last: the
\* columns hold its quality score alone, beside the relevance row of the
\* invocation received after it
C25_EarlierRequestWroteLast ==
    /\ \A p \in Slots : IsIdle(p)
    /\ resp.op = "analyze" /\ resp.code = 200
    /\ \E m, n \in 1..Len(analysis) :
         /\ analysis[m].video_id = resp.videoId
         /\ analysis[n].video_id = resp.videoId
         /\ analysis[m].created < analysis[n].created
         /\ analysis[m].type = "quality" /\ analysis[n].type = "relevance"
         /\ analysis[m].score = Num(8 * Unit) /\ analysis[n].score = Num(8 * Unit)
         /\ ScoreColumns(videos[resp.videoId])
              = <<Num(8 * Unit), Num(8 * Unit), Null, Null>>

\* C26: when the brace-delimited substring of the response does not parse
\* as JSON, the result's score is the number after the first 'score:'
\* token of the text when there is one and 5.0 when there is none, and the
\* result carries a low confidence.
C26_ParseFailureFallsBackToRegex ==
    (HasResult /\ JsonMatch(arg) # <<>> /\ ~JsonParse(JsonMatch(arg)).ok)
      => /\ out.value.score = IF ScoreMatch(arg) # Null THEN ScoreMatch(arg)
                              ELSE Num(DefaultScore * Unit)
         /\ IsNum(out.value.confidence) /\ out.value.confidence.n < 8

\* the response text yields no JSON document
Unparseable(response) ==
    JsonMatch(response) = <<>> \/ ~JsonParse(JsonMatch(response)).ok

\* C27: an unparseable scoring response is never an error: whatever text
\* the Scoring Adapter returns for a kind, the Analyze that inserts its
\* batch stores a row for that kind, with a score and with a confidence
\* below the default 0.8 when the text is unparseable; an Analyze answers
\* 500 only for a failure of the adapter or of the store.
C27_ParseDegradationNotFatal ==
    [][/\ \A p \in Procs :
            (IsIdle(p) /\ procs'[p].op = "analyze")
              => \A k \in DOMAIN procs'[p].answers :
                   \E n \in 1..Len(AddedRows) :
                     /\ AddedRows[n].video_id = procs'[p].vid
                     /\ AddedRows[n].type = k
                     /\ Unparseable(procs'[p].answers[k])
                          => /\ IsNum(AddedRows[n].score)
                             /\ AddedRows[n].confidence \in {3, 6}
       /\ (/\ AnsweredAtOnce /\ resp'.op = "analyze" /\ resp'.code = 500
            /\ FindTranscript(resp'.videoId))
            => resp'.failed \in {"score", "insert"}]_vars

\* an Analyze whose adapter answered an object text that is no JSON has
\* returned 200 and left its row, with the default score and confidence 0.3
C27_DegradedRowStored ==
    /\ AllIdle /\ resp.op = "analyze" /\ resp.code = 200
    /\ \E n \in 1..Len(analysis) :
         /\ analysis[n].video_id = resp.videoId
         /\ analysis[n].score = Num(DefaultScore * Unit)
         /\ analysis[n].confidence = 3

\* C28: a chunk longer than the maximum consists of a single sentence
\* that, with its terminator, is itself longer than the maximum; a chunk
\* that holds two or more sentence fragments is never longer than the
\* maximum.
C28_ChunkLengthBound ==
    HasResult =>
        \A i \in 1..Len(out.value) :
            Len(out.value[i]) > arg.maxChunkSize
              => /\ Len(Fragments(out.value[i])) = 1
                 /\ Len(Fragments(out.value[i])[1]) + 1 > arg.maxChunkSize

\* the key under which the audio of chunk i of video vid is expected
AudioKey(vid, i) == <<"tts", ToString(vid), ToString(i)>>

\* C29: Speak handles its chunks strictly in sequence.  It starts at chunk
\* 0 with n the number of chunks of the transcript; the TTS call of chunk
\* i is made when the objects of the chunks before i are stored, and is
\* followed by the put of chunk i and nothing else; the put of chunk i is
\* followed by the call of chunk i + 1 or, after chunk n - 1, by the
\* answer 200 with totalChunks = n, the n objects 0..n-1 being stored; no
\* step writes a row of tts_conversions.
C29_SpeakChunksInSequence ==
    [][/\ conversions' = conversions
       /\ \A p \in Procs :
            LET vid == procs[p].vid
                i == procs[p].i
                n == procs[p].n
            IN
            /\ (IsIdle(p) /\ procs'[p].op = "tts")
                 => /\ procs'[p].pc = "call" /\ procs'[p].i = 0
                    /\ \E size \in ChunkSizes :
                         procs'[p].n
                           = Len(chunkText(FirstTranscript(procs'[p].vid, 1).text, size))
                    /\ r2' = r2
            /\ (procs[p].op = "tts" /\ procs[p].pc = "call" /\ procs'[p] # procs[p])
                 => /\ procs'[p] = [procs[p] EXCEPT !.pc = "put"]
                    /\ r2' = r2
                    /\ \A j \in 0..(i - 1) : AudioKey(vid, j) \in r2
            /\ (procs[p].op = "tts" /\ procs[p].pc = "put" /\ procs'[p] # procs[p])
                 => \/ IsIdle(p)' /\ resp'.code = 500 /\ r2' = r2
                    \/ /\ r2' = r2 \cup {AudioKey(vid, i)}
                       /\ IF i + 1 = n
                          THEN /\ IsIdle(p)'
                               /\ resp'.code = 200 /\ resp'.totalChunks = n
                               /\ \A j \in 0..(n - 1) : AudioKey(vid, j) \in r2'
                          ELSE procs'[p] = [procs[p] EXCEPT !.i = i + 1, !.pc = "call"]]_vars

\* a Speak of two chunks has just answered: both objects are stored and
\* tts_conversions is empty
C29_TwoChunksSpoken ==
    /\ AllIdle /\ resp.op = "tts" /\ resp.code = 200
    /\ resp.totalChunks = 2
    /\ AudioKey(resp.videoId, 0) \in r2 /\ AudioKey(resp.videoId, 1) \in r2
    /\ conversions = 0

\* a step in which a request is answered
RequestEnds ==
    \E p \in Procs : IsIdle(p)' /\ (~IsIdle(p) \/ served' = served + 1)

\* a step in which a Transcribe enters its catch block
EntersCatch ==
    \E p \in Procs :
        procs'[p] # procs[p] /\ procs'[p].op = "transcribe" /\ procs'[p].pc = "catch"

\* the video a failing step works for: the one its request names, the one
\* an ingest is creating, or none
Concerned ==
    IF EntersCatch
    THEN procs'[CHOOSE p \in Procs : procs'[p].op = "transcribe"].vid
    ELSE IF resp'.op \in {"transcribe", "analyze", "tts"} THEN resp'.videoId
    ELSE IF resp'.op \in {"upload_url", "upload_stream", "upload_file"}
    THEN Len(videos) + 1
    ELSE NoId

\* C30: every failure raised while a request is handled (a body that
\* cannot be read, a store failure, an adapter failure, a failure of the
\* write that records the status failed) is answered by the worker with a
\* JSON error response: a request never ends without one; and a step that
\* fails leaves the rows of every other video as they were.
C30_FailuresAnsweredAsJson ==
    [][/\ RequestEnds
          => /\ resp'.code \in {200, 400, 404, 500}
             /\ resp'.code # 200 => resp'.body = "json"
       /\ ((RequestEnds /\ resp'.code = 500) \/ EntersCatch)
          => /\ \A i \in 1..Len(videos) : i # Concerned => videos'[i] = videos[i]
             /\ Len(transcripts') >= Len(transcripts)
             /\ \A n \in 1..Len(transcripts') :
                  IF n <= Len(transcripts) THEN transcripts'[n] = transcripts[n]
                  ELSE transcripts'[n].video_id = Concerned
             /\ Len(analysis') >= Len(analysis)
             /\ \A n \in 1..Len(analysis') :
                  IF n <= Len(analysis) THEN analysis'[n] = analysis[n]
                  ELSE analysis'[n].video_id = Concerned]_vars

\* the write of the status failed has thrown and the catch of fetch has
\* answered: the video is left in processing, beside a completed video
\* that kept its transcript
C30_CatchWriteFailedAnswered ==
    /\ AllIdle /\ resp.op = "transcribe" /\ resp.code = 500
    /\ resp.body = "json"
    /\ videos[resp.videoId].status = "processing"
    /\ \E j \in 1..Len(videos) :
         j # resp.videoId /\ videos[j].status = "completed" /\ HasTranscript(j)

(***************************************************************************)
(* C31                                                                     *)
(***************************************************************************)
\* C31: in every reachable state a video whose status is completed has at
\* least one transcript row, whether Transcribe completed it or an article
\* ingest created it (with or without extracted_content, and when the
\* insert of its transcript fails).
C31_CompletedHasTranscript ==
    \A i \in 1..Len(videos) :
        videos[i].status = "completed" => HasTranscript(i)

(***************************************************************************)
(* C32                                                                     *)
(***************************************************************************)
\* the videos of a result
Listed(rows) == {rows[i].v : i \in 1..Len(rows)}

\* C32: whatever its parameters, Search returns each video at most once and
\* its total is the number of distinct videos returned, also for a video
\* that was transcribed more than once and has several transcript rows.
C32_SearchListsVideoOnce ==
    \A q \in QueryParams, minRating \in MinRatingParams,
       limit \in LimitParams, category \in CategoryParams :
        LET rows == SearchResults(q, minRating, limit, category)
        IN /\ \A i, j \in 1..Len(rows) : i # j => rows[i].v # rows[j].v
           /\ Len(rows) = Cardinality(Listed(rows))

(***************************************************************************)
(* C33                                                                     *)
(***************************************************************************)
\* the video rows created by file upload: their file_path is an object key
UploadedRows == {i \in 1..Len(videos) : IsFileKey(videos[i].file_path)}

\* C33: file-upload ingest puts the object before it inserts the video row:
\* in every reachable state each video row created by file upload has an
\* object stored under its file_path, a request that creates such a row has
\* stored that object itself, and a file upload answered with an error
\* creates no row (it may leave an object without a row).
C33_UploadedRowHasObject ==
    /\ [](\A i \in UploadedRows : videos[i].file_path \in r2)
    /\ [][/\ \A i \in 1..Len(videos') :
                (i > Len(videos) /\ IsFileKey(videos'[i].file_path))
                    => /\ resp'.op = "upload_file" /\ resp'.code = 200
                       /\ videos'[i].file_path \in r2' \ r2
          /\ (AnsweredAtOnce /\ resp'.op = "upload_file" /\ resp'.code # 200)
                => /\ Len(videos') = Len(videos)
                   /\ UploadedRows' = UploadedRows]_vars

\* a file upload created a row with its object, and another one left an
\* object without a row behind
C33_RowBesideOrphanObject ==
    /\ UploadedRows # {}
    /\ \E k \in FileObjects : \A i \in UploadedRows : videos[i].file_path # k

====
